---- MODULE Spec2Model ----
(***************************************************************************)
(* Model of the Instagram OAuth integration backend:                       *)
(*   - the CSRF state registry   (middleware/csrfProtection.js)            *)
(*   - the in-memory token store (services/tokenStorage.js)                *)
(*   - the OAuth callback route  (csrfProtection.js:222-363)            *)
(*                                                                         *)
(* Time.  Date.now() is a number of milliseconds.  The model clock `now`   *)
(* counts ticks of MsPerTick milliseconds, so that 60 days fit TLC's       *)
(* integers; every duration of the source is converted to ticks.  Nothing  *)
(* in the source depends on a resolution finer than a tick: all durations  *)
(* are multiples of a second.                                              *)
(***************************************************************************)
EXTENDS Integers, Sequences, FiniteSets, TLC

VARIABLES
    now,         \* Date.now(), in ticks
    ticks,       \* number of clock advances so far (bounds the clock)
    stateStore,  \* csrfProtection.js stateStore: Map state -> timestamp
    issued,      \* history: the number of tokens generateState has returned
    tried,       \* history: tokens validateState was called on in their window
    tokenStore,  \* tokenStorage.js tokenStore: Map userId -> record
    req,         \* the callback requests being handled (suspended at an await)
    nodeEnv,     \* oauthConfig.nodeEnv, fixed when the configuration is loaded
    last         \* the operation performed by the last step, with its result

vars ==
    <<now, ticks, stateStore, issued, tried, tokenStore, req, nodeEnv, last>>

\* ------------------------------------------------------------------ bounds
MaxStates == 2      \* state tokens generateState may issue
MaxTicks  == 2      \* clock advances
MaxPages  == 2      \* pages in one answer of the pages lookup

\* ------------------------------------------------------------------ clock
MsPerTick == 100
TicksPerSecond == 1000 \div MsPerTick

\* csrfProtection.js:15  (10 minutes, in ticks)
STATE_EXPIRATION_MS == (10 * 60 * 1000) \div MsPerTick

\* csrfProtection.js:102  the period of the sweep timer, in ticks
CLEANUP_INTERVAL_MS == (5 * 60 * 1000) \div MsPerTick

\* tokenStorage.js:29  (60 days, in seconds)
DEFAULT_EXPIRES_IN == 60 * 24 * 60 * 60

\* the amounts by which the clock advances between two operations: the
\* lifetime of a state (its age is then exactly the window) and one tick
\* more, or one tick and the lifetimes of a token
TickSteps      == {STATE_EXPIRATION_MS, STATE_EXPIRATION_MS + 1}
TickStepsStore == {1, TicksPerSecond, DEFAULT_EXPIRES_IN * TicksPerSecond}

\* ------------------------------------------------------------------ values
NULL == "null"                       \* undefined / null of a string field

\* a JavaScript value used as a number: typeof v === 'number' or not
Num(n)   == [isNumber |-> TRUE,  val |-> n]
NotANum  == [isNumber |-> FALSE, val |-> 0]

\* a permissions argument: a list, or absent (undefined)
Perms(list) == [given |-> TRUE, list |-> list]

NoPerms == [given |-> FALSE, list |-> <<>>]

\* state tokens: uuid i is the i-th token issued; 0 stands for the empty
\* string and ForgedState for a uuid generateState never returns
EmptyState  == 0
ForgedState == MaxStates + 1
StateArgs   == 0 .. ForgedState

Users == {"u1", "u2"}

IssuedStates == 1 .. issued

\* ------------------------------------------------------- csrfProtection.js
\* stateStore.get(state): the timestamp, or undefined
HasState(store, state) == state \in DOMAIN store

\* `!timestamp` of validateState: undefined and the number 0 are both falsy
FalsyTimestamp(store, state) ==
    \/ ~HasState(store, state)
    \/ store[state] = 0

\* stateStore.delete(state)
DeleteState(store, state) ==
    [s \in (DOMAIN store) \ {state} |-> store[s]]

\* the age test shared by validateState and cleanupExpiredStates
ExpiredAt(timestamp, t) == t - timestamp > STATE_EXPIRATION_MS

\* a validateState without the `!timestamp` test: the age of an unknown state
\* is NaN, which is not greater than the window
validateStateResultNoLookup(store, state, t) ==
    IF state = EmptyState THEN FALSE
    ELSE IF HasState(store, state) /\ store[state] # 0
            /\ ExpiredAt(store[state], t) THEN FALSE
    ELSE TRUE

\* validateState(state): the value returned
validateStateResult(store, state, t) ==
    IF state = EmptyState THEN FALSE
    ELSE IF FalsyTimestamp(store, state) THEN FALSE
    ELSE IF ExpiredAt(store[state], t) THEN FALSE
    ELSE TRUE

\* a validateState that accepts a state and leaves it in the registry
validateStateStoreKeep(store, state, t) ==
    IF state = EmptyState THEN store
    ELSE IF FalsyTimestamp(store, state) THEN store
    ELSE IF ExpiredAt(store[state], t) THEN DeleteState(store, state)
    ELSE store

\* validateState(state): the registry it leaves
validateStateStore(store, state, t) ==
    IF state = EmptyState THEN store
    ELSE IF FalsyTimestamp(store, state) THEN store
    ELSE DeleteState(store, state)

\* a sweep that also removes the entries whose age equals the window
cleanupStoreInclusive(store, t) ==
    [s \in {x \in DOMAIN store : t - store[x] < STATE_EXPIRATION_MS} |->
        store[s]]

\* a sweep that removes nothing
cleanupStoreNothing(store, t) == store

\* cleanupExpiredStates(): the registry it leaves
cleanupStore(store, t) ==
    [s \in {x \in DOMAIN store : ~ExpiredAt(store[x], t)} |-> store[s]]

\* --------------------------------------------------------- tokenStorage.js
\* the token data handed to saveToken
TokenData(at, tt, ei, perms, igUser, acct, handle, pt) ==
    [accessToken |-> at, tokenType |-> tt, expiresIn |-> ei,
     permissions |-> perms, instagramUserId |-> igUser,
     instagramAccountId |-> acct, instagramUsername |-> handle,
     pageAccessToken |-> pt]

\* `x || dflt` on a string field
OrElse(x, dflt) == IF x = NULL THEN dflt ELSE x

\* tokenStorage.js  `permissions || []`
PermissionsOrEmpty(p) == IF p.given THEN p.list ELSE <<>>

\* a default taken only for negative durations (`>= 0` for `> 0`)
expiresInSecondsNonNegative(data) ==
    IF data.expiresIn.isNumber /\ data.expiresIn.val >= 0
    THEN data.expiresIn.val
    ELSE DEFAULT_EXPIRES_IN

\* tokenStorage.js:27-29
expiresInSeconds(data) ==
    IF data.expiresIn.isNumber /\ data.expiresIn.val > 0
    THEN data.expiresIn.val
    ELSE DEFAULT_EXPIRES_IN

\* tokenStorage.js:31  Date.now() + expiresInSeconds * 1000
expiresAtFor(data, t) == t + expiresInSeconds(data) * TicksPerSecond

\* a record whose handle is read from the wrong field of the token data
StoredRecordSwapped(userId, data, t) ==
    [accessToken        |-> data.accessToken,
     tokenType          |-> OrElse(data.tokenType, "bearer"),
     expiresAt          |-> t + (IF data.expiresIn.isNumber
                                    /\ data.expiresIn.val > 0
                                 THEN data.expiresIn.val
                                 ELSE DEFAULT_EXPIRES_IN) * TicksPerSecond,
     permissions        |-> PermissionsOrEmpty(data.permissions),
     instagramUserId    |-> data.instagramUserId,
     instagramAccountId |-> OrElse(data.instagramAccountId, NULL),
     instagramUsername  |-> OrElse(data.instagramAccountId, NULL),
     pageAccessToken    |-> OrElse(data.pageAccessToken, NULL),
     createdAt          |-> t]

\* the record saveToken stores
StoredRecord(userId, data, t) ==
    [accessToken        |-> data.accessToken,
     tokenType          |-> OrElse(data.tokenType, "bearer"),
     expiresAt          |-> expiresAtFor(data, t),
     permissions        |-> PermissionsOrEmpty(data.permissions),
     instagramUserId    |-> data.instagramUserId,
     instagramAccountId |-> OrElse(data.instagramAccountId, NULL),
     instagramUsername  |-> OrElse(data.instagramUsername, NULL),
     pageAccessToken    |-> OrElse(data.pageAccessToken, NULL),
     createdAt          |-> t]

\* a save that keeps the linked account of the record it replaces wherever
\* the new token data has none
saveTokenStoreMerge(store, userId, data, t) ==
    [u \in (DOMAIN store) \cup {userId} |->
        IF u # userId THEN store[u]
        ELSE IF userId \notin DOMAIN store THEN StoredRecord(userId, data, t)
        ELSE [StoredRecord(userId, data, t) EXCEPT
                !.instagramAccountId = OrElse(@, store[userId].instagramAccountId),
                !.instagramUsername  = OrElse(@, store[userId].instagramUsername),
                !.pageAccessToken    = OrElse(@, store[userId].pageAccessToken)]]

\* tokenStore.set(userId, record)
saveTokenStore(store, userId, data, t) ==
    [u \in (DOMAIN store) \cup {userId} |->
        IF u = userId THEN StoredRecord(userId, data, t) ELSE store[u]]

\* a delete that empties the store
DeleteRecordAll(store, userId) ==
    IF userId \in DOMAIN store THEN [u \in {} |-> store[u]] ELSE store

\* tokenStore.delete(userId)
DeleteRecord(store, userId) ==
    [u \in (DOMAIN store) \ {userId} |-> store[u]]

\* a getToken that returns a record whatever its expiresAt
getTokenResultStale(store, userId, t) ==
    IF userId \notin DOMAIN store THEN <<>> ELSE <<store[userId]>>

\* getToken(userId): the value returned, <<>> for null
getTokenResult(store, userId, t) ==
    IF userId \notin DOMAIN store THEN <<>>
    ELSE IF t > store[userId].expiresAt THEN <<>>
    ELSE <<store[userId]>>

\* a getToken that answers null for an expired record and keeps it
getTokenStoreKeep(store, userId, t) == store

\* getToken(userId): the store it leaves
getTokenStore(store, userId, t) ==
    IF userId \notin DOMAIN store THEN store
    ELSE IF t > store[userId].expiresAt THEN DeleteRecord(store, userId)
    ELSE store

\* a getAllTokens that leaves the expired records out
getAllTokensResultLive(store, t) ==
    { [userId |-> u, record |-> store[u], isExpired |-> FALSE] :
        u \in { x \in DOMAIN store : ~(t > store[x].expiresAt) } }

\* getAllTokens(): one entry per record, expired ones included and flagged
getAllTokensResult(store, t) ==
    { [userId |-> u, record |-> store[u], isExpired |-> t > store[u].expiresAt] :
        u \in DOMAIN store }

\* getTokenCount(): tokenStore.size
getTokenCountResult(store) == Cardinality(DOMAIN store)

\* clearAllTokens(): tokenStore.clear()
clearAllTokensStore(store) == [u \in {} |-> 0]

\* ------------------------------ the /auth routes (csrfProtection.js:222-363)
\* the callback requests that get past state validation, in order of arrival
Reqs == {1, 2}

\* req.query of GET /auth/instagram/callback (state 0: absent or empty)
\* either ?code=&state= (each possibly missing) or a denial
\* ?error=&error_reason=&error_description= that may carry code and state too
Queries ==
    [code : {NULL, "c1"}, state : StateArgs,
     error : {NULL}, error_reason : {NULL}, error_description : {NULL}]
    \cup
    [code : {"c1"}, state : {EmptyState, 1},
     error : {"access_denied"},
     error_reason : {NULL, "user_denied"},
     error_description : {NULL, "Permissions error"}]

NoQuery ==
    [code |-> NULL, state |-> EmptyState, error |-> NULL,
     error_reason |-> NULL, error_description |-> NULL]

\* answers of the token endpoint: {access_token, token_type, expires_in}
TokenResponse(at, tt, ei) ==
    [access_token |-> at, token_type |-> tt, expires_in |-> ei]

NoTokenResponse == TokenResponse(NULL, NULL, NotANum)

ShortLivedResponses == { TokenResponse("S", "bearer", Num(1)) }

\* response.data is returned as it came (part_001:691, 719): a 200 answer
\* may lack access_token
AnyShortLivedResponses ==
    ShortLivedResponses \cup { TokenResponse(NULL, "bearer", Num(1)) }

\* token_type and expires_in may be missing from the answer, and expires_in
\* may be 0
LongLivedResponses ==
    { TokenResponse("L", "bearer", Num(1)),
      TokenResponse("L", "bearer", Num(0)),
      TokenResponse("L", NULL, NotANum) }

AnyLongLivedResponses ==
    LongLivedResponses \cup { TokenResponse(NULL, "bearer", Num(1)) }

\* the id of the /me answer (part_001:774): NULL when the answer has none
UserInfoIds == Users \cup {NULL}

\* a page of /me/accounts; iba is instagram_business_account: <<>> when the
\* page has none, <<id>> when it has one (an object without id: <<NULL>>)
Page(tok, iba) == [access_token |-> tok, instagram_business_account |-> iba]

\* the answer is passed on unchecked: a page may lack its access_token and a
\* linked account may lack its id
PageKinds ==
    { Page("P0", <<>>), Page("P1", <<"ig1">>),
      Page(NULL, <<"ig2">>), Page("P3", <<NULL>>) }

PageLists == UNION { [1 .. n -> PageKinds] : n \in 0 .. MaxPages }

\* the answers with at most one page
ShortPageLists == { p \in PageLists : Len(p) <= 1 }

Usernames == {"h1"}

\* the messages of the error redirects
MsgAuthorizationFailed == "Authorization failed"
MsgInvalidParameters   == "Invalid callback parameters"
MsgSecurity            == "Security validation failed"
MsgGeneric             == "Failed to complete Instagram connection"

\* the messages of the errors thrown by services/instagramOAuth.js
ErrExchange == "Failed to exchange authorization code: E"
ErrUpgrade  == "Failed to get long-lived token: E"
ErrUser     == "Failed to get user info: E"
ErrPages    == "Failed to get Facebook Pages: E"
ErrAccount  == "Failed to get Instagram Business Account: E"

\* a request that has not arrived yet, and one that has been answered
IdleReq ==
    [pc |-> "idle", query |-> NoQuery, calls |-> <<>>, short |-> NULL,
     long |-> NoTokenResponse, userId |-> NULL,
     acct |-> NULL, pageToken |-> NULL, pages |-> <<>>]

DoneReq == [IdleReq EXCEPT !.pc = "done"]

\* csrfProtection.js:269  error_description || error_reason || 'Authorization failed'
DenialMessage(q) ==
    OrElse(q.error_description, OrElse(q.error_reason, MsgAuthorizationFailed))

\* a callback that never consults the registry
CallbackKindNoCsrf(q, store, t) ==
    IF q.error # NULL THEN "denied"
    ELSE IF q.code = NULL \/ q.state = EmptyState THEN "invalid"
    ELSE "validated"

\* csrfProtection.js:266-283  which way the callback goes before its first await
CallbackKind(q, store, t) ==
    IF q.error # NULL THEN "denied"
    ELSE IF q.code = NULL \/ q.state = EmptyState THEN "invalid"
    ELSE IF ~validateStateResult(store, q.state, t) THEN "csrf"
    ELSE "validated"

\* a callback that answers a rejected state like a missing parameter
CallbackMessageMerged(q, kind) ==
    CASE kind = "denied"  -> DenialMessage(q)
      [] kind = "invalid" -> MsgInvalidParameters
      [] kind = "csrf"    -> MsgInvalidParameters
      [] OTHER            -> NULL

\* the message of the error redirect on each of these ways
CallbackMessage(q, kind) ==
    CASE kind = "denied"  -> DenialMessage(q)
      [] kind = "invalid" -> MsgInvalidParameters
      [] kind = "csrf"    -> MsgSecurity
      [] OTHER            -> NULL

\* a callback that validates the state before it looks at the error parameter
CallbackRegistryEager(q, store, t) ==
    IF q.code # NULL /\ q.state # EmptyState
    THEN validateStateStore(store, q.state, t)
    ELSE store

\* a callback whose validation leaves an accepted state in the registry
CallbackRegistryKeep(q, store, t) ==
    IF CallbackKind(q, store, t) = "csrf"
    THEN validateStateStore(store, q.state, t)
    ELSE store

\* the registry after it: validateState is called only past both checks
CallbackRegistry(q, store, t) ==
    IF CallbackKind(q, store, t) \in {"csrf", "validated"}
    THEN validateStateStore(store, q.state, t)
    ELSE store

\* the external calls issued before the first await
CallbackCalls(kind) ==
    IF kind = "validated" THEN <<"exchangeCodeForToken">> ELSE <<>>

\* csrfProtection.js:358  error.message || 'Failed to complete Instagram connection'
CatchMessage(errorMessage) == OrElse(errorMessage, MsgGeneric)

\* the index of the last page with an instagram_business_account
RECURSIVE LastLinkedFrom(_, _)
LastLinkedFrom(pages, i) ==
    IF i > Len(pages) THEN 0
    ELSE IF LastLinkedFrom(pages, i + 1) # 0
         THEN LastLinkedFrom(pages, i + 1)
    ELSE IF pages[i].instagram_business_account # <<>> THEN i
    ELSE 0

\* csrfProtection.js:312-327  the index of the first page with an
\* instagram_business_account, 0 when there is none
RECURSIVE FirstLinkedFrom(_, _)
FirstLinkedFrom(pages, i) ==
    IF i > Len(pages) THEN 0
    ELSE IF pages[i].instagram_business_account # <<>> THEN i
    ELSE FirstLinkedFrom(pages, i + 1)

FirstLinked(pages) == FirstLinkedFrom(pages, 1)

\* token data that leaves out the validity reported by the token endpoint
CallbackTokenDataNoExpiry(long, userId, acct, handle, pageToken) ==
    TokenData(long.access_token, OrElse(long.token_type, "bearer"),
              NotANum, Perms(<<>>), userId, acct, handle, pageToken)

\* csrfProtection.js:335-344  the token data the callback saves
CallbackTokenData(long, userId, acct, handle, pageToken) ==
    TokenData(long.access_token, OrElse(long.token_type, "bearer"),
              long.expires_in, Perms(<<>>), userId, acct, handle, pageToken)

\* what a step of the callback route leaves in `last`: the request (0 when
\* it never got past the checks), its query, the outcome so far, the message
\* of the error redirect and the external calls issued
Handled(r, q, outcome, msg, calls, short, long, userId) ==
    <<[req |-> r, query |-> q, outcome |-> outcome, msg |-> msg,
       calls |-> calls, short |-> short, long |-> long, userId |-> userId]>>

\* -------------------------------------------- the /api routes (part_001)
\* the userId query parameter (NULL: missing)
UserArgs == Users \cup {NULL}

\* the relay routes modelled: /instagram/media, and /instagram/insights for
\* the routes that share its checks (stories, tagged, hashtag search, ...)
RelayRoutes == {"media", "insights"}

MsgMissingUserId  == "Missing required parameter: userId"
MsgNoValidToken   ==
    "No valid token found. Please connect your Instagram account."
MsgNoAccountMedia ==
    "No Instagram Business Account connected. Make sure your Instagram is linked to a Facebook Page."
MsgNoAccount      == "No Instagram Business Account connected"
MsgNoTokenForUser == "No token found for this user"
MsgDevOnly        == "This endpoint is only available in development mode"
ErrRelay          == "Failed to get Instagram media: E"

\* res.status(status).json({error, ...}); listed: getAllTokens() was called;
\* tokens: the users whose data the body carries; call: the token of the
\* Graph API call the route issued (<<>>: none); body: the entries of the
\* `tokens` array of /api/tokens
Response(route, status, error, listed, tokens) ==
    <<[route |-> route, status |-> status, error |-> error,
       listed |-> listed, tokens |-> tokens, call |-> <<>>, body |-> {}]>>

\* the response of a route that issued its Graph API call with this token
Calling(res, token) == <<[res[1] EXCEPT !.call = <<token>>]>>

\* new Date(ms).toISOString()
ISOString(ms) == <<"iso", ms>>

\* an entry of /api/tokens that copies the whole record
TokenSummaryFull(e) ==
    [userId          |-> e.userId,
     instagramUserId |-> e.record.instagramUserId,
     permissions     |-> e.record.permissions,
     expiresAt       |-> ISOString(e.record.expiresAt),
     createdAt       |-> ISOString(e.record.createdAt),
     isExpired       |-> e.isExpired,
     accessToken     |-> e.record.accessToken,
     pageAccessToken |-> e.record.pageAccessToken]

\* part_001:146-153  the entry of /api/tokens made from one of getAllTokens
TokenSummary(e) ==
    [userId          |-> e.userId,
     instagramUserId |-> e.record.instagramUserId,
     permissions     |-> e.record.permissions,
     expiresAt       |-> ISOString(e.record.expiresAt),
     createdAt       |-> ISOString(e.record.createdAt),
     isExpired       |-> e.isExpired]

\* the record is there but lacks its linked account
Unlinked(rec) ==
    rec.instagramAccountId = NULL \/ rec.pageAccessToken = NULL

\* GET /api/me; got is what getToken returned, ok whether the Graph call
\* succeeded (its error goes to the error handler: status 500)
MeResponse(userId, got, ok) ==
    IF userId = NULL THEN Response("me", 400, MsgMissingUserId, FALSE, {})
    ELSE IF got = <<>> THEN Response("me", 401, MsgNoValidToken, FALSE, {})
    ELSE IF ok THEN Calling(Response("me", 200, NULL, FALSE, {userId}),
                            got[1].accessToken)
    ELSE Calling(Response("me", 500, ErrUser, FALSE, {}), got[1].accessToken)

\* GET /api/instagram/media and GET /api/instagram/insights
RelayResponse(route, userId, got, ok) ==
    IF userId = NULL THEN Response(route, 400, MsgMissingUserId, FALSE, {})
    ELSE IF route = "media" /\ got = <<>>
    THEN Response(route, 401, MsgNoValidToken, FALSE, {})
    ELSE IF route = "media" /\ Unlinked(got[1])
    THEN Response(route, 404, MsgNoAccountMedia, FALSE, {})
    ELSE IF route # "media" /\ (got = <<>> \/ Unlinked(got[1]))
    THEN Response(route, 404, MsgNoAccount, FALSE, {})
    ELSE IF ok THEN Calling(Response(route, 200, NULL, FALSE, {userId}),
                            got[1].pageAccessToken)
    ELSE Calling(Response(route, 500, ErrRelay, FALSE, {}),
                 got[1].pageAccessToken)

\* a /api/tokens without the development-mode check
TokensResponseOpen(env, store, t) ==
    Response("tokens", 200, NULL, TRUE,
             { e.userId : e \in getAllTokensResult(store, t) })

\* GET /api/tokens
TokensResponse(env, store, t) ==
    IF env # "development"
    THEN Response("tokens", 403, MsgDevOnly, FALSE, {})
    ELSE <<[Response("tokens", 200, NULL, TRUE,
                     { e.userId : e \in getAllTokensResult(store, t) })[1]
              EXCEPT !.body = { TokenSummary(e) :
                                  e \in getAllTokensResult(store, t) }]>>

\* DELETE /api/logout; deleted is what deleteToken returned
LogoutResponse(userId, deleted) ==
    IF userId = NULL THEN Response("logout", 400, MsgMissingUserId, FALSE, {})
    ELSE IF deleted THEN Response("logout", 200, NULL, FALSE, {})
    ELSE Response("logout", 404, MsgNoTokenForUser, FALSE, {})

\* the store after a route called getToken(userId), if it got that far
StoreAfterLookup(store, userId, t) ==
    IF userId = NULL THEN store ELSE getTokenStore(store, userId, t)

\* ------------------------------------------------------------ the last step
\* `last` describes the step just taken: the operation, its arguments (tok,
\* user, data), what it returned (ret, rec; for a sweep or a callback, ret
\* tells whether it removed an entry of the registry) and, for a step of the
\* callback route, the request's query and outcome (cb).  replaced: saveToken found a
\* record of the user in the store; found: so did getToken.  res: the
\* response of an /api route.  pages: the pages a completed callback looked
\* through.  all: what getAllTokens returned.
NoOp ==
    [op |-> "init", tok |-> 0, user |-> NULL, ret |-> FALSE, rec |-> <<>>,
     data |-> <<>>, cb |-> <<>>, replaced |-> FALSE, found |-> FALSE,
     res |-> <<>>, pages |-> <<>>, all |-> {}]

\* ------------------------------------------------------------ config/oauth
\* process.env.NODE_ENV when the server starts (NULL: not set)
ProcessEnvs == {NULL, "production"}

\* csrfProtection.js:217  nodeEnv: process.env.NODE_ENV || 'development'
nodeEnvOf(e) == OrElse(e, "development")

\* ------------------------------------------------------------------- Init
\* the server started without NODE_ENV (the registry, the store and the
\* OAuth routes never read the configuration)
Init ==
    /\ now = 0
    /\ ticks = 0
    /\ stateStore = [s \in {} |-> 0]
    /\ issued = 0
    /\ tried = {}
    /\ tokenStore = [u \in {} |-> 0]
    /\ req = [r \in Reqs |-> IdleReq]
    /\ nodeEnv = nodeEnvOf(NULL)
    /\ last = NoOp

\* ------------------------------------------------------------------ clock
Advance(steps) ==
    /\ ticks < MaxTicks
    /\ \E d \in steps : now' = now + d
    /\ ticks' = ticks + 1
    /\ last' = [NoOp EXCEPT !.op = "tick"]
    /\ UNCHANGED <<nodeEnv, stateStore, issued, tried, tokenStore, req>>

Tick == Advance(TickSteps)

TickStore == Advance(TickStepsStore)

\* ------------------------------------------------------- registry operations
\* generateState(): a fresh uuid, recorded with the current time
generateState ==
    /\ issued < MaxStates
    /\ LET state == issued + 1 IN
        /\ stateStore' = [s \in (DOMAIN stateStore) \cup {state} |->
                            IF s = state THEN now ELSE stateStore[s]]
        /\ issued' = issued + 1
        /\ last' = [NoOp EXCEPT !.op = "generateState", !.tok = state]
    /\ UNCHANGED <<nodeEnv, now, ticks, tried, tokenStore, req>>

\* the history of validateState calls made on a token inside its window (a
\* token that is no longer in the registry was consumed or is past its window)
TriedAfter(state) ==
    IF HasState(stateStore, state) /\ ~ExpiredAt(stateStore[state], now)
    THEN tried \cup {state} ELSE tried

\* validateState(state)
validateState(state) ==
    /\ stateStore' = validateStateStore(stateStore, state, now)
    /\ tried' = TriedAfter(state)
    /\ last' = [NoOp EXCEPT !.op = "validateState", !.tok = state,
                    !.ret = validateStateResult(stateStore, state, now)]
    /\ UNCHANGED <<nodeEnv, now, ticks, issued, tokenStore, req>>

\* cleanupExpiredStates(), run by the 5-minute timer
cleanupExpiredStates ==
    /\ stateStore' = cleanupStore(stateStore, now)
    /\ last' = [NoOp EXCEPT !.op = "cleanupExpiredStates",
                    !.ret = (stateStore' # stateStore)]
    /\ UNCHANGED <<nodeEnv, now, ticks, issued, tried, tokenStore, req>>

\* the sweep timer fires: CLEANUP_INTERVAL_MS have passed since it last did.
\* The clock stops once MaxTicks advances were made and every entry left in
\* the registry is older than the window.
SweepTimer ==
    /\ \/ ticks < MaxTicks
       \/ \E s \in DOMAIN stateStore : ~ExpiredAt(stateStore[s], now)
    /\ now' = now + CLEANUP_INTERVAL_MS
    /\ ticks' = IF ticks < MaxTicks THEN ticks + 1 ELSE ticks
    /\ stateStore' = cleanupStore(stateStore, now')
    /\ last' = [NoOp EXCEPT !.op = "sweepTimer",
                    !.ret = (stateStore' # stateStore)]
    /\ UNCHANGED <<nodeEnv, issued, tried, tokenStore, req>>

\* --------------------------------------------------- token store operations
\* the token data saveToken is called with
TokenDatas ==
    { TokenData("A", "bearer", Num(1), Perms(<<"basic">>),
                "u1", "ig1", "h1", "P1"),
      TokenData("B", NULL, NotANum, NoPerms, "u2", NULL, NULL, NULL),
      TokenData("B", "mac", Num(2), Perms(<<>>), "u1", "ig2", NULL, "P2"),
      TokenData("A", NULL, Num(0), Perms(<<>>), NULL, NULL, "h1", NULL),
      TokenData(NULL, "bearer", Num(0 - 1), NoPerms,
                "u2", "ig1", "h1", "P1") }

\* saveToken(userId, tokenData): returns the stored record
saveToken(userId, data) ==
    /\ tokenStore' = saveTokenStore(tokenStore, userId, data, now)
    /\ last' = [NoOp EXCEPT !.op = "saveToken", !.user = userId,
                    !.rec = <<tokenStore'[userId]>>, !.data = <<data>>,
                    !.replaced = userId \in DOMAIN tokenStore]
    /\ UNCHANGED <<nodeEnv, now, ticks, stateStore, issued, tried, req>>

\* getToken(userId)
getToken(userId) ==
    /\ tokenStore' = getTokenStore(tokenStore, userId, now)
    /\ last' = [NoOp EXCEPT !.op = "getToken", !.user = userId,
                    !.rec = getTokenResult(tokenStore, userId, now),
                    !.found = userId \in DOMAIN tokenStore]
    /\ UNCHANGED <<nodeEnv, now, ticks, stateStore, issued, tried, req>>

\* deleteToken(userId): returns whether a record was removed
deleteToken(userId) ==
    /\ tokenStore' = DeleteRecord(tokenStore, userId)
    /\ last' = [NoOp EXCEPT !.op = "deleteToken", !.user = userId,
                    !.ret = userId \in DOMAIN tokenStore]
    /\ UNCHANGED <<nodeEnv, now, ticks, stateStore, issued, tried, req>>

\* getAllTokens()
getAllTokens ==
    /\ last' = [NoOp EXCEPT !.op = "getAllTokens",
                    !.all = getAllTokensResult(tokenStore, now)]
    /\ UNCHANGED <<nodeEnv, now, ticks, stateStore, issued, tried,
                   tokenStore, req>>

\* clearAllTokens()
clearAllTokens ==
    /\ tokenStore' = clearAllTokensStore(tokenStore)
    /\ last' = [NoOp EXCEPT !.op = "clearAllTokens"]
    /\ UNCHANGED <<nodeEnv, now, ticks, stateStore, issued, tried, req>>

\* ------------------------------------------------------- OAuth route steps
\* GET /auth/instagram: issue a state and redirect to the authorize URL
Connect == generateState

\* a catch block that puts the state of the failed flow back
CatchRestoring(r, errorMessage) ==
    /\ req' = [req EXCEPT ![r] = DoneReq]
    /\ stateStore' = [s \in DOMAIN stateStore \cup {req[r].query.state} |->
                        IF s = req[r].query.state THEN now ELSE stateStore[s]]
    /\ last' = [NoOp EXCEPT !.op = "failed", !.tok = req[r].query.state,
                  !.cb = Handled(r, req[r].query, "Failed",
                                 CatchMessage(errorMessage), req[r].calls,
                                 req[r].short, req[r].long, req[r].userId)]
    /\ UNCHANGED <<nodeEnv, now, ticks, issued, tried, tokenStore>>

\* a catch block reached after the token has already been saved
CatchSaving(r, errorMessage) ==
    /\ req' = [req EXCEPT ![r] = DoneReq]
    /\ tokenStore' =
         IF req[r].userId = NULL THEN tokenStore
         ELSE saveTokenStore(tokenStore, req[r].userId,
                             CallbackTokenData(req[r].long, req[r].userId,
                                               NULL, NULL, NULL), now)
    /\ last' = [NoOp EXCEPT !.op = "failed", !.tok = req[r].query.state,
                  !.cb = Handled(r, req[r].query, "Failed",
                                 CatchMessage(errorMessage), req[r].calls,
                                 req[r].short, req[r].long, req[r].userId)]
    /\ UNCHANGED <<nodeEnv, now, ticks, stateStore, issued, tried>>

\* the catch block of the callback: error redirect, nothing else
Catch(r, errorMessage) ==
    /\ req' = [req EXCEPT ![r] = DoneReq]
    /\ last' = [NoOp EXCEPT !.op = "failed", !.tok = req[r].query.state,
                  !.cb = Handled(r, req[r].query, "Failed",
                                 CatchMessage(errorMessage), req[r].calls,
                                 req[r].short, req[r].long, req[r].userId)]
    /\ UNCHANGED <<nodeEnv, now, ticks, stateStore, issued, tried,
                   tokenStore>>

\* csrfProtection.js:333-355  saveToken, then the success redirect
Complete(r, acct, handle, pageToken, pages) ==
    LET data == CallbackTokenData(req[r].long, req[r].userId,
                                  acct, handle, pageToken) IN
    /\ tokenStore' = saveTokenStore(tokenStore, req[r].userId, data, now)
    /\ req' = [req EXCEPT ![r] = DoneReq]
    /\ last' = [NoOp EXCEPT !.op = "complete", !.tok = req[r].query.state,
                  !.user = req[r].userId,
                  !.rec = <<tokenStore'[req[r].userId]>>, !.data = <<data>>,
                  !.replaced = req[r].userId \in DOMAIN tokenStore,
                  !.pages = pages,
                  !.cb = Handled(r, req[r].query, "Complete", NULL,
                                 req[r].calls, req[r].short, req[r].long,
                                 req[r].userId)]
    /\ UNCHANGED <<nodeEnv, now, ticks, stateStore, issued, tried>>

\* GET /auth/instagram/callback, up to its first await (csrfProtection.js:262-288)
Callback(q) ==
    LET kind == CallbackKind(q, stateStore, now) IN
    /\ stateStore' = CallbackRegistry(q, stateStore, now)
    /\ tried' = IF kind \in {"csrf", "validated"} THEN TriedAfter(q.state)
                ELSE tried
    /\ IF kind = "validated"
       THEN /\ \E x \in Reqs : req[x].pc = "idle"
            /\ LET r == CHOOSE x \in Reqs :
                           /\ req[x].pc = "idle"
                           /\ \A y \in Reqs : req[y].pc = "idle" => x <= y
               IN /\ req' = [req EXCEPT ![r] =
                               [IdleReq EXCEPT !.pc = "exchange",
                                               !.query = q,
                                               !.calls = CallbackCalls(kind)]]
                  /\ last' = [NoOp EXCEPT !.op = "callback", !.tok = q.state,
                                !.ret = (stateStore' # stateStore),
                                !.cb = Handled(r, q, "Pending", NULL,
                                               CallbackCalls(kind), NULL,
                                               NoTokenResponse, NULL)]
       ELSE /\ req' = req
            /\ last' = [NoOp EXCEPT !.op = "callback", !.tok = q.state,
                          !.ret = (stateStore' # stateStore),
                          !.cb = Handled(0, q, "Failed",
                                         CallbackMessage(q, kind),
                                         CallbackCalls(kind), NULL,
                                         NoTokenResponse, NULL)]
    /\ UNCHANGED <<nodeEnv, now, ticks, issued, tokenStore>>

\* a request resumes from an await and suspends at the next one
Resume(r) ==
    /\ last' = [NoOp EXCEPT !.op = "await", !.tok = req[r].query.state]
    /\ UNCHANGED <<nodeEnv, now, ticks, stateStore, issued, tried,
                   tokenStore>>

\* exchangeCodeForToken answers (csrfProtection.js:288-293)
ExchangeReturn(r, answers) ==
    /\ req[r].pc = "exchange"
    /\ \/ Catch(r, ErrExchange)
       \/ \E resp \in answers :
            /\ req' = [req EXCEPT ![r].pc = "upgrade",
                                  ![r].short = resp.access_token,
                                  ![r].calls = Append(@, "exchangeForLongLivedToken")]
            /\ Resume(r)

\* an upgrade that is issued again after it failed
UpgradeReturnRetry(r, answers) ==
    /\ req[r].pc = "upgrade"
    /\ \/ /\ Len(req[r].calls) < 3
          /\ req' = [req EXCEPT
                        ![r].calls = Append(@, "exchangeForLongLivedToken")]
          /\ Resume(r)
       \/ \E resp \in answers :
            /\ req' = [req EXCEPT ![r].pc = "identity",
                                  ![r].long = resp,
                                  ![r].calls = Append(@, "getInstagramUser")]
            /\ Resume(r)

\* exchangeForLongLivedToken answers (csrfProtection.js:293-298)
UpgradeReturn(r, answers) ==
    /\ req[r].pc = "upgrade"
    /\ \/ Catch(r, ErrUpgrade)
       \/ \E resp \in answers :
            /\ req' = [req EXCEPT ![r].pc = "identity",
                                  ![r].long = resp,
                                  ![r].calls = Append(@, "getInstagramUser")]
            /\ Resume(r)

\* getInstagramUser answers (csrfProtection.js:298-305)
IdentityReturn(r, ids) ==
    /\ req[r].pc = "identity"
    /\ \/ Catch(r, ErrUser)
       \/ \E id \in ids :
            /\ req' = [req EXCEPT ![r].pc = "pages",
                                  ![r].userId = id,
                                  ![r].calls = Append(@, "getFacebookPages")]
            /\ Resume(r)

\* getFacebookPages answers; the loop runs to its first await (csrfProtection.js:305-321)
\* or, with no linked account, to the end of the handler
PagesReturn(r, answers) ==
    /\ req[r].pc = "pages"
    /\ \/ Catch(r, ErrPages)
       \/ \E pages \in answers :
            LET i == FirstLinked(pages) IN
            IF i = 0
            THEN Complete(r, NULL, NULL, NULL, pages)
            ELSE /\ req' = [req EXCEPT
                     ![r].pc = "detail",
                     ![r].pages = pages,
                     ![r].acct = pages[i].instagram_business_account[1],
                     ![r].pageToken = pages[i].access_token,
                     ![r].calls = Append(@, "getInstagramBusinessAccount")]
                 /\ Resume(r)

\* getInstagramBusinessAccount answers; break, then save (csrfProtection.js:318-355)
DetailReturn(r) ==
    /\ req[r].pc = "detail"
    /\ \/ Catch(r, ErrAccount)
       \/ \E username \in Usernames :
            Complete(r, req[r].acct, username, req[r].pageToken,
                     req[r].pages)

\* --------------------------------------------------------- /api route steps
\* a whole flow that ran to Complete: its state token was issued and
\* consumed, and its callback saved the record (see Complete)
Authorized(userId, long, pages, username) ==
    LET i == FirstLinked(pages)
        data == IF i = 0
                THEN CallbackTokenData(long, userId, NULL, NULL, NULL)
                ELSE CallbackTokenData(long, userId,
                         pages[i].instagram_business_account[1],
                         username, pages[i].access_token)
    IN  /\ issued < MaxStates
        /\ issued' = issued + 1
        /\ tokenStore' = saveTokenStore(tokenStore, userId, data, now)
        /\ last' = [NoOp EXCEPT !.op = "complete", !.user = userId,
                      !.rec = <<tokenStore'[userId]>>, !.data = <<data>>,
                      !.replaced = userId \in DOMAIN tokenStore]
        /\ UNCHANGED <<nodeEnv, now, ticks, stateStore, tried, req>>

\* the clock of the /api routes: each advance outlives a one-second token
TickApi == Advance({TicksPerSecond + 1})

ApiMe(userId, ok) ==
    /\ tokenStore' = StoreAfterLookup(tokenStore, userId, now)
    /\ last' = [NoOp EXCEPT !.op = "api", !.user = userId,
                  !.found = userId \in DOMAIN tokenStore,
                  !.res = MeResponse(userId,
                                     getTokenResult(tokenStore, userId, now),
                                     ok)]
    /\ UNCHANGED <<nodeEnv, now, ticks, stateStore, issued, tried, req>>

ApiRelay(route, userId, ok) ==
    /\ tokenStore' = StoreAfterLookup(tokenStore, userId, now)
    /\ last' = [NoOp EXCEPT !.op = "api", !.user = userId,
                  !.found = userId \in DOMAIN tokenStore,
                  !.res = RelayResponse(route, userId,
                                        getTokenResult(tokenStore, userId, now),
                                        ok)]
    /\ UNCHANGED <<nodeEnv, now, ticks, stateStore, issued, tried, req>>

ApiTokens ==
    /\ last' = [NoOp EXCEPT !.op = "api",
                  !.res = TokensResponse(nodeEnv, tokenStore, now)]
    /\ UNCHANGED <<nodeEnv, now, ticks, stateStore, issued, tried,
                   tokenStore, req>>

ApiLogout(userId) ==
    /\ tokenStore' = IF userId = NULL THEN tokenStore
                     ELSE DeleteRecord(tokenStore, userId)
    /\ last' = [NoOp EXCEPT !.op = "api", !.user = userId,
                  !.res = LogoutResponse(userId, userId \in DOMAIN tokenStore)]
    /\ UNCHANGED <<nodeEnv, now, ticks, stateStore, issued, tried, req>>

\* ------------------------------------------------------------ specifications
\* the server: the OAuth routes, the sweep timer and the clock
Next ==
    \/ Tick
    \/ Connect
    \/ \E q \in Queries : Callback(q)
    \/ \E r \in Reqs : ExchangeReturn(r, ShortLivedResponses)
    \/ \E r \in Reqs : UpgradeReturn(r, LongLivedResponses)
    \/ \E r \in Reqs : IdentityReturn(r, Users)
    \/ \E r \in Reqs : PagesReturn(r, ShortPageLists)
    \/ \E r \in Reqs : DetailReturn(r)
    \/ cleanupExpiredStates

Spec == Init /\ [][Next]_vars

\* one callback at a time, with every answer the external calls can give:
\* answers that lack access_token or id, and every list of pages
NextFlow ==
    \/ Tick
    \/ Connect
    \/ \E q \in { x \in Queries : \A r \in Reqs : req[r].pc = "idle" } :
          Callback(q)
    \/ \E r \in Reqs : ExchangeReturn(r, AnyShortLivedResponses)
    \/ \E r \in Reqs : UpgradeReturn(r, AnyLongLivedResponses)
    \/ \E r \in Reqs : IdentityReturn(r, UserInfoIds)
    \/ \E r \in Reqs : PagesReturn(r, PageLists)
    \/ \E r \in Reqs : DetailReturn(r)

SpecFlow == Init /\ [][NextFlow]_vars

\* the state registry used through its module interface
NextRegistry ==
    \/ Tick
    \/ generateState
    \/ \E state \in StateArgs : validateState(state)
    \/ cleanupExpiredStates

SpecRegistry == Init /\ [][NextRegistry]_vars

\* the token store used through its module interface, next to a registry
\* that is filled and swept
NextStore ==
    \/ TickStore
    \/ \E u \in Users, d \in TokenDatas : saveToken(u, d)
    \/ \E u \in Users : getToken(u)
    \/ \E u \in Users : deleteToken(u)
    \/ getAllTokens
    \/ clearAllTokens
    \/ generateState
    \/ cleanupExpiredStates

SpecStore == Init /\ [][NextStore]_vars

\* the registry under its periodic sweep: the timer fires again and again
NextSweep ==
    \/ SweepTimer
    \/ generateState
    \/ \E state \in StateArgs : validateState(state)

SpecSweep == Init /\ [][NextSweep]_vars /\ WF_vars(SweepTimer)

\* the /api routes over the records completed callbacks have saved, under
\* every configuration of NODE_ENV
InitApi ==
    /\ now = 0
    /\ ticks = 0
    /\ stateStore = [s \in {} |-> 0]
    /\ issued = 0
    /\ tried = {}
    /\ tokenStore = [u \in {} |-> 0]
    /\ req = [r \in Reqs |-> IdleReq]
    /\ nodeEnv \in { nodeEnvOf(e) : e \in ProcessEnvs }
    /\ last = NoOp

NextApi ==
    \/ TickApi
    \/ \E u \in Users, long \in LongLivedResponses,
          pages \in ShortPageLists,
          username \in Usernames : Authorized(u, long, pages, username)
    \/ \E u \in UserArgs, ok \in BOOLEAN : ApiMe(u, ok)
    \/ \E route \in RelayRoutes, u \in UserArgs, ok \in BOOLEAN :
          ApiRelay(route, u, ok)
    \/ ApiTokens
    \/ \E u \in UserArgs : ApiLogout(u)

SpecApi == InitApi /\ [][NextApi]_vars

\* ------------------------------------------------- properties: the registry
\* the token is in the registry and inside its ten-minute window
InWindow(t) == HasState(stateStore, t) /\ ~ExpiredAt(stateStore[t], now)

C3_UnknownStateRejected ==
    [][(/\ last'.op = "validateState"
        /\ (last'.tok = EmptyState \/ last'.tok \notin IssuedStates)) =>
            (~last'.ret /\ stateStore' = stateStore)]_vars

\* a never-issued token has just been refused while the registry holds others
C3_Witness ==
    /\ last.op = "validateState"
    /\ last.tok = ForgedState
    /\ ~last.ret
    /\ DOMAIN stateStore # {}

\* C15 -- after cleanupExpiredStates the registry holds no entry older than
\* the validity window, and every entry that was not older than the window
\* is still there with its timestamp
C15_Sweep ==
    [][(last'.op = "cleanupExpiredStates") =>
            /\ DOMAIN stateStore' \subseteq DOMAIN stateStore
            /\ \A s \in DOMAIN stateStore' :
                    now' - stateStore'[s] <= STATE_EXPIRATION_MS
            /\ \A s \in DOMAIN stateStore :
                    (now - stateStore[s] <= STATE_EXPIRATION_MS) =>
                        /\ s \in DOMAIN stateStore'
                        /\ stateStore'[s] = stateStore[s]]_vars

\* a sweep has just removed the first token, never presented, and kept the
\* second
C15_Witness ==
    /\ last.op = "cleanupExpiredStates"
    /\ last.ret
    /\ issued = 2
    /\ tried = {}
    /\ DOMAIN stateStore = {2}

\* C16 -- with the sweep timer firing again and again, every state token in
\* the registry is eventually absent from it, whether or not a callback ever
\* presents it
C16_NoLeak ==
    \A t \in 1 .. MaxStates :
        (t \in DOMAIN stateStore) ~> (t \notin DOMAIN stateStore)

\* the timer has just swept the last entries of the registry, none of which
\* was ever presented
C16_Witness ==
    /\ last.op = "sweepTimer"
    /\ last.ret
    /\ issued = MaxStates
    /\ tried = {}
    /\ DOMAIN stateStore = {}

\* --------------------------------------------- properties: the callback route
\* the step just taken handled (part of) a callback: what it left in `last`
Arrival == last.cb[1]

\* the step wrote nothing to the token store, started no request and issued
\* no external call
NothingStarted ==
    /\ last'.cb[1].outcome = "Failed"
    /\ last'.cb[1].calls = <<>>
    /\ tokenStore' = tokenStore
    /\ req' = req

\* C4 (as stated) -- a callback that carries a code and a state token absent
\* from the registry ends in Failed with the security-validation message,
\* issues no external call and writes no record
C4_AsStated ==
    [][(/\ last'.op = "callback"
        /\ last'.cb[1].query.code # NULL
        /\ last'.cb[1].query.state # EmptyState
        /\ ~HasState(stateStore, last'.cb[1].query.state)) =>
            (NothingStarted /\ last'.cb[1].msg = MsgSecurity)]_vars

\* C4 -- a callback that carries no error parameter, a code and a state token
\* absent from the registry (never issued, consumed or swept) ends in Failed
\* with the security-validation message, issues no external call and writes
\* no record
C4_UnknownStateFails ==
    [][(/\ last'.op = "callback"
        /\ last'.cb[1].query.error = NULL
        /\ last'.cb[1].query.code # NULL
        /\ last'.cb[1].query.state # EmptyState
        /\ ~HasState(stateStore, last'.cb[1].query.state)) =>
            (NothingStarted /\ last'.cb[1].msg = MsgSecurity)]_vars

\* a callback has just been refused for a token consumed by an earlier one
C4_Witness ==
    /\ last.op = "callback"
    /\ Arrival.query.error = NULL
    /\ Arrival.query.code # NULL
    /\ Arrival.query.state \in tried
    /\ ~HasState(stateStore, Arrival.query.state)
    /\ Arrival.outcome = "Failed"
    /\ Arrival.msg = MsgSecurity

\* the reasons a denial carries
ProvidedReasons(q) ==
    {q.error, q.error_reason, q.error_description} \ {NULL}

\* C5 (as stated) -- a callback that carries an error parameter ends in
\* Failed with one of the reasons it carries surfaced, and has no other
\* effect: the registry, the token store and the requests are unchanged
C5_AsStated ==
    [][(last'.op = "callback" /\ last'.cb[1].query.error # NULL) =>
            /\ NothingStarted
            /\ stateStore' = stateStore
            /\ last'.cb[1].msg \in ProvidedReasons(last'.cb[1].query)]_vars

\* C5 -- a callback that carries an error parameter ends in Failed with the
\* error_description surfaced, else the error_reason, else the fixed message
\* 'Authorization failed', and has no other effect: the registry (the state
\* token it carries included), the token store and the requests are unchanged
C5_DenialFails ==
    [][(last'.op = "callback" /\ last'.cb[1].query.error # NULL) =>
            /\ NothingStarted
            /\ stateStore' = stateStore
            /\ last'.cb[1].msg =
                 IF last'.cb[1].query.error_description # NULL
                 THEN last'.cb[1].query.error_description
                 ELSE IF last'.cb[1].query.error_reason # NULL
                 THEN last'.cb[1].query.error_reason
                 ELSE "Authorization failed"]_vars

\* a denial carrying a live state token has just been answered with its
\* error_reason, and the token is still in the registry
C5_Witness ==
    /\ last.op = "callback"
    /\ Arrival.query.error # NULL
    /\ Arrival.query.error_description = NULL
    /\ Arrival.query.error_reason # NULL
    /\ Arrival.msg = Arrival.query.error_reason
    /\ InWindow(Arrival.query.state)
    /\ stateStore[Arrival.query.state] # 0

\* the record getToken returns for the user of the callback just completed
Saved == getTokenResult(tokenStore, Arrival.userId, now)

\* C6 (as stated) -- when a callback ends in Complete, the record of the
\* identified user holds the long-lived token, not the short-lived one, and
\* expires at the save time plus the expires_in the upgrade reported
C6_AsStated ==
    (last.op = "complete") =>
        /\ Arrival.outcome = "Complete"
        /\ Saved # <<>>
        /\ Saved[1].accessToken = Arrival.long.access_token
        /\ Saved[1].accessToken # Arrival.short
        /\ Arrival.long.expires_in.isNumber
        /\ Saved[1].expiresAt =
             now + Arrival.long.expires_in.val * TicksPerSecond

\* C6 -- when a callback ends in Complete, the record of the identified user
\* holds the long-lived token, not the short-lived one, and expires at the
\* save time plus the expires_in the upgrade reported when that is a positive
\* number, plus 60 days when the upgrade reported none
C6_LongLivedTokenSaved ==
    (last.op = "complete") =>
        /\ Arrival.outcome = "Complete"
        /\ Saved # <<>>
        /\ Saved[1].accessToken = Arrival.long.access_token
        /\ Saved[1].accessToken # Arrival.short
        /\ Saved[1].expiresAt =
             IF Arrival.long.expires_in.isNumber
                /\ Arrival.long.expires_in.val > 0
             THEN now + Arrival.long.expires_in.val * TicksPerSecond
             ELSE now + 5184000 * TicksPerSecond

\* a callback has just completed with an upgrade that reported expires_in
C6_Witness ==
    /\ last.op = "complete"
    /\ Arrival.long.expires_in = Num(1)
    /\ Arrival.short = "S"
    /\ tokenStore[Arrival.userId].accessToken = "L"
    /\ tokenStore[Arrival.userId].expiresAt = now + TicksPerSecond

\* C7 -- a callback one of whose external calls fails ends in Failed with an
\* error message, and no step of such a callback, the failing one included,
\* writes or modifies a record of the token store
C7_FailureWritesNothing ==
    [][/\ (last'.op \in {"callback", "await", "failed"}) =>
             tokenStore' = tokenStore
       /\ (last'.op = "failed") =>
             /\ last'.cb[1].outcome = "Failed"
             /\ last'.cb[1].msg \in
                  {ErrExchange, ErrUpgrade, ErrUser, ErrPages, ErrAccount}
             /\ req'[last'.cb[1].req].pc = "done"]_vars

\* the last of the five calls has just failed for a user who has no record
C7_Witness ==
    /\ last.op = "failed"
    /\ Arrival.outcome = "Failed"
    /\ Arrival.msg = ErrAccount
    /\ Arrival.userId # NULL
    /\ Arrival.userId \notin DOMAIN tokenStore

\* the state of the callback that arrives is missing, or it is not in the
\* registry (unknown, consumed or swept), or it is there and expired
CsrfFailure(q) ==
    \/ q.state = EmptyState
    \/ ~HasState(stateStore, q.state)
    \/ ExpiredAt(stateStore[q.state], now)

\* C17 (as stated) -- a callback with a code and no error parameter whose
\* state is missing, unknown, expired or already consumed is answered with
\* the generic security message, whichever the sub-case
C17_AsStated ==
    [][(/\ last'.op = "callback"
        /\ last'.cb[1].query.error = NULL
        /\ last'.cb[1].query.code # NULL
        /\ CsrfFailure(last'.cb[1].query)) =>
            /\ last'.cb[1].outcome = "Failed"
            /\ last'.cb[1].msg = MsgSecurity]_vars

\* C17 -- a callback with a code and no error parameter whose state is
\* unknown, expired or already consumed is answered with the generic
\* security message, whichever the sub-case; one whose state is missing is
\* answered with 'Invalid callback parameters'
C17_SameSecurityMessage ==
    [][(/\ last'.op = "callback"
        /\ last'.cb[1].query.error = NULL
        /\ last'.cb[1].query.code # NULL
        /\ CsrfFailure(last'.cb[1].query)) =>
            /\ last'.cb[1].outcome = "Failed"
            /\ last'.cb[1].msg =
                 IF last'.cb[1].query.state = EmptyState
                 THEN "Invalid callback parameters"
                 ELSE "Security validation failed"]_vars

\* a callback presenting an expired state, removed by this validation, has
\* just been answered with the security message
C17_Witness ==
    /\ last.op = "callback"
    /\ last.ret
    /\ Arrival.outcome = "Failed"
    /\ Arrival.msg = MsgSecurity
    /\ ~HasState(stateStore, Arrival.query.state)

\* C18 -- when an external call of the callback fails, the message of the
\* error redirect is the generic 'failed to complete connection' message and
\* never the message of the underlying error
C18_GenericFailureMessage ==
    (last.op = "failed") =>
        /\ Arrival.msg = MsgGeneric
        /\ Arrival.msg \notin
                {ErrExchange, ErrUpgrade, ErrUser, ErrPages, ErrAccount}

\* ------------------------------------------------ properties: the token store
\* the token data of the saveToken just made, and what getToken returns now
SavedData == last.data[1]

Fetched == getTokenResult(tokenStore, last.user, now)

\* the validity window of a save, in seconds
ValidityWindow(d) ==
    IF d.expiresIn.isNumber /\ d.expiresIn.val > 0
    THEN d.expiresIn.val ELSE 5184000

\* C8 (as stated) -- saveToken(userId, data) followed at once by
\* getToken(userId) returns a record whose accessToken, tokenType, linked
\* account id, handle and page token equal the saved ones, with expiresAt the
\* save time plus the validity window
C8_AsStated ==
    (last.op = "saveToken") =>
        /\ Fetched # <<>>
        /\ Fetched[1].accessToken = SavedData.accessToken
        /\ Fetched[1].tokenType = SavedData.tokenType
        /\ Fetched[1].instagramAccountId = SavedData.instagramAccountId
        /\ Fetched[1].instagramUsername = SavedData.instagramUsername
        /\ Fetched[1].pageAccessToken = SavedData.pageAccessToken
        /\ Fetched[1].expiresAt = now + ValidityWindow(SavedData) * TicksPerSecond

\* C8 -- saveToken(userId, data) followed at once by getToken(userId) returns
\* a record whose accessToken, linked account id, handle and page token equal
\* the saved ones, whose tokenType is the saved one or 'bearer' when none was
\* given, with expiresAt the save time plus the validity window
C8_RoundTrip ==
    (last.op = "saveToken") =>
        /\ Fetched # <<>>
        /\ Fetched[1].accessToken = SavedData.accessToken
        /\ Fetched[1].tokenType =
             (IF SavedData.tokenType = NULL THEN "bearer"
              ELSE SavedData.tokenType)
        /\ Fetched[1].instagramAccountId = SavedData.instagramAccountId
        /\ Fetched[1].instagramUsername = SavedData.instagramUsername
        /\ Fetched[1].pageAccessToken = SavedData.pageAccessToken
        /\ Fetched[1].expiresAt = now + ValidityWindow(SavedData) * TicksPerSecond

\* a save with a handle but no linked account id has just been made
C8_Witness ==
    /\ last.op = "saveToken"
    /\ SavedData.instagramUsername = "h1"
    /\ SavedData.instagramAccountId = NULL
    /\ tokenStore[last.user].instagramUsername = "h1"

\* C9 -- saveToken sets expiresAt to the save time plus expiresIn seconds when
\* expiresIn is a positive number, and to the save time plus 5,184,000 s when
\* it is missing or not positive; no stored record has expiresAt at or before
\* its save time
C9_ExpiresAt ==
    /\ \A u \in DOMAIN tokenStore :
            tokenStore[u].expiresAt > tokenStore[u].createdAt
    /\ (last.op = "saveToken") =>
            /\ last.rec[1].createdAt = now
            /\ last.rec[1] = tokenStore[last.user]
            /\ IF SavedData.expiresIn.isNumber /\ SavedData.expiresIn.val > 0
               THEN last.rec[1].expiresAt =
                        now + SavedData.expiresIn.val * TicksPerSecond
               ELSE last.rec[1].expiresAt = now + 5184000 * TicksPerSecond

\* a save with expiresIn 0 has just been made
C9_Witness ==
    /\ last.op = "saveToken"
    /\ SavedData.expiresIn = Num(0)
    /\ tokenStore[last.user].expiresAt = now + 5184000 * TicksPerSecond

\* a save adds at most the record of its user and leaves the others alone
OthersKept ==
    /\ DOMAIN tokenStore' = (DOMAIN tokenStore) \cup {last'.user}
    /\ \A v \in (DOMAIN tokenStore) \ {last'.user} :
            tokenStore'[v] = tokenStore[v]

\* the fields of record rec that saveToken copies or computes without a
\* default are those of a save of d at time t
CopiedFrom(rec, d, t) ==
    /\ rec.accessToken = d.accessToken
    /\ rec.instagramUserId = d.instagramUserId
    /\ rec.instagramAccountId = d.instagramAccountId
    /\ rec.instagramUsername = d.instagramUsername
    /\ rec.pageAccessToken = d.pageAccessToken
    /\ rec.expiresAt = t + ValidityWindow(d) * TicksPerSecond
    /\ rec.createdAt = t

\* C10 (as stated) -- a save leaves exactly one record of its user, made of
\* the data of that save alone (every field absent in the data is absent or
\* null in the record: a record's permissions list is never absent), and
\* leaves the records of other users unchanged
C10_AsStated ==
    [][(last'.op = "saveToken") =>
            /\ OthersKept
            /\ CopiedFrom(tokenStore'[last'.user], last'.data[1], now)
            /\ tokenStore'[last'.user].tokenType = last'.data[1].tokenType
            /\ last'.data[1].permissions.given
            /\ tokenStore'[last'.user].permissions =
                    last'.data[1].permissions.list]_vars

\* C10 -- a save leaves exactly one record of its user, made of the data of
\* that save alone (an access token, user id, linked account id, handle or
\* page token absent in the data is null in the record; an absent tokenType
\* is 'bearer' and absent permissions are the empty list), and leaves the
\* records of other users unchanged
C10_Overwrite ==
    [][(last'.op = "saveToken") =>
            /\ OthersKept
            /\ CopiedFrom(tokenStore'[last'.user], last'.data[1], now)
            /\ tokenStore'[last'.user].tokenType =
                 (IF last'.data[1].tokenType = NULL THEN "bearer"
                  ELSE last'.data[1].tokenType)
            /\ tokenStore'[last'.user].permissions =
                 (IF last'.data[1].permissions.given
                  THEN last'.data[1].permissions.list ELSE <<>>)]_vars

\* a record with a linked account has just been replaced by a save without
\* one, while another user has a record
C10_Witness ==
    /\ last.op = "saveToken"
    /\ last.replaced
    /\ SavedData.instagramAccountId = NULL
    /\ tokenStore[last.user].instagramAccountId = NULL
    /\ DOMAIN tokenStore = Users

\* the users getAllTokens lists
ListedUsers(store, t) == { e.userId : e \in getAllTokensResult(store, t) }

\* C11 -- getToken(userId) called after the record's expiresAt has passed
\* returns null and removes the record: getAllTokens() no longer lists the
\* user and getTokenCount() is one less than before
C11_LazyExpiry ==
    [][(/\ last'.op = "getToken"
        /\ last'.user \in DOMAIN tokenStore
        /\ now > tokenStore[last'.user].expiresAt) =>
            /\ last'.rec = <<>>
            /\ last'.user \in ListedUsers(tokenStore, now)
            /\ last'.user \notin ListedUsers(tokenStore', now')
            /\ getTokenCountResult(tokenStore') =
                    getTokenCountResult(tokenStore) - 1]_vars

\* getToken has just found an expired record and the other user is still
\* listed
C11_Witness ==
    /\ last.op = "getToken"
    /\ last.found
    /\ last.rec = <<>>
    /\ last.user \notin ListedUsers(tokenStore, now)
    /\ getTokenCountResult(tokenStore) = 1

\* C12 -- deleteToken(userId) on an existing record returns true and a
\* getToken(userId) made next returns null; on a missing record it returns
\* false and leaves the store unchanged; the records of other users are
\* untouched either way
C12_Delete ==
    [][(last'.op = "deleteToken") =>
            /\ IF last'.user \in DOMAIN tokenStore
               THEN /\ last'.ret
                    /\ getTokenResult(tokenStore', last'.user, now') = <<>>
               ELSE /\ ~last'.ret
                    /\ tokenStore' = tokenStore
            /\ DOMAIN tokenStore' = (DOMAIN tokenStore) \ {last'.user}
            /\ \A v \in DOMAIN tokenStore' : tokenStore'[v] = tokenStore[v]]_vars

\* a record has just been deleted and the other user's record is still there
C12_Witness ==
    /\ last.op = "deleteToken"
    /\ last.ret
    /\ last.user \notin DOMAIN tokenStore
    /\ DOMAIN tokenStore # {}

\* C13 -- every record written by the OAuth callback has its pageAccessToken
\* and its instagramAccountId either both present or both absent, whatever
\* list of pages the pages lookup returned
C13_LinkedFieldsTogether ==
    \A u \in DOMAIN tokenStore :
        (tokenStore[u].pageAccessToken = NULL)
            <=> (tokenStore[u].instagramAccountId = NULL)

\* ------------------------------------------------- properties: the /api routes
\* the response of the /api request just handled
Res == last.res[1]

\* C14 -- whenever the configured environment is not 'development', a request
\* to /api/tokens is refused, getAllTokens is not called and the response
\* carries no record data
C14_TokensDevelopmentOnly ==
    (last.op = "api" /\ Res.route = "tokens" /\ nodeEnv # "development") =>
        /\ Res.status = 403
        /\ ~Res.listed
        /\ Res.tokens = {}

\* /api/tokens has just been refused in production while the store holds a
\* record
C14_Witness ==
    /\ last.op = "api"
    /\ Res.route = "tokens"
    /\ nodeEnv = "production"
    /\ Res.status = 403
    /\ DOMAIN tokenStore # {}

\* the user of the request just handled has an unexpired record without
\* any linked-account field
NoLinkedAccount ==
    /\ last.user \in DOMAIN tokenStore
    /\ now <= tokenStore[last.user].expiresAt
    /\ tokenStore[last.user].instagramAccountId = NULL
    /\ tokenStore[last.user].instagramUsername = NULL
    /\ tokenStore[last.user].pageAccessToken = NULL

\* C19 -- a flow whose pages lookup found no linked business account reaches
\* Complete with the linked-account fields absent, and afterwards every relay
\* route that needs a linked account refuses that user with a 'no business
\* account connected' response that differs from the one it gives a user
\* who has no unexpired record
C19_NoAccountDistinct ==
    /\ (last.op = "complete" /\ last.data[1].instagramAccountId = NULL
            /\ last.data[1].pageAccessToken = NULL) => NoLinkedAccount
    /\ (last.op = "api" /\ Res.route \in RelayRoutes /\ NoLinkedAccount) =>
            /\ Res.status = 404
            /\ Res.error \in {MsgNoAccount, MsgNoAccountMedia}
            /\ \A ok \in BOOLEAN :
                 Res # RelayResponse(Res.route, last.user, <<>>, ok)[1]

\* the response says that the user has no record
NotFound(r) == r.error \in {MsgNoValidToken, MsgNoTokenForUser}

\* C20 -- /api/me and /api/logout answer 'not found' exactly when the user
\* has no unexpired record; with an expired record as the user's only one,
\* both answer not-found
C20_NotFoundIffNoRecord ==
    [][(/\ last'.op = "api"
        /\ last'.res[1].route \in {"me", "logout"}
        /\ last'.user # NULL) =>
            (NotFound(last'.res[1])
                <=> getTokenResult(tokenStore, last'.user, now) = <<>>)]_vars

\* ------------------------------------------------ properties: order and races
\* the external calls of a callback, in the order of the handler
CallOrder ==
    <<"exchangeCodeForToken", "exchangeForLongLivedToken", "getInstagramUser",
      "getFacebookPages", "getInstagramBusinessAccount">>

IsPrefix(s, t) == Len(s) <= Len(t) /\ s = SubSeq(t, 1, Len(s))

\* the call a suspended request is waiting for
AwaitedCall(pc) ==
    CASE pc = "exchange" -> 1
      [] pc = "upgrade"  -> 2
      [] pc = "identity" -> 3
      [] pc = "pages"    -> 4
      [] pc = "detail"   -> 5
      [] OTHER           -> 0

\* C21 -- after state validation a callback issues its external calls in the
\* order code exchange, upgrade, identity lookup, pages lookup, detail
\* lookup, each at most once and each only once the previous one has
\* answered without error, and the record is saved only by the step that
\* follows the last of them and ends in the success redirect
C21_CallOrder ==
    [][/\ \A r \in Reqs :
            /\ IsPrefix(req'[r].calls, CallOrder)
            /\ Len(req'[r].calls) = AwaitedCall(req'[r].pc)
            /\ (req'[r].calls # req[r].calls /\ req'[r].pc # "done") =>
                    /\ req'[r].calls =
                         Append(req[r].calls, CallOrder[Len(req[r].calls) + 1])
                    /\ last'.op \in {"callback", "await"}
       /\ (tokenStore' # tokenStore) =>
            /\ last'.op = "complete"
            /\ last'.cb[1].outcome = "Complete"
            /\ last'.cb[1].calls \in {SubSeq(CallOrder, 1, 4), CallOrder}]_vars

\* a callback has just completed after all five calls
C21_Witness ==
    /\ last.op = "complete"
    /\ Arrival.calls = CallOrder
    /\ Arrival.userId \in DOMAIN tokenStore

\* C22 -- in every interleaving of generateState, validateState and the
\* sweep, validateState accepts a token at most once and never once the
\* token has left the registry; validating a token that is gone changes
\* nothing, and so does a sweep right after a sweep
C22_SweepSafe ==
    [][/\ (last'.op = "validateState" /\ last'.ret) =>
            /\ last'.tok \notin tried
            /\ HasState(stateStore, last'.tok)
            /\ ~HasState(stateStore', last'.tok)
       /\ (last'.op = "validateState" /\ ~HasState(stateStore, last'.tok)) =>
            (~last'.ret /\ stateStore' = stateStore)
       /\ (last'.op = "cleanupExpiredStates") =>
            cleanupStore(stateStore', now') = stateStore']_vars

\* a token accepted earlier has just been presented again and refused
C22_Witness ==
    /\ last.op = "validateState"
    /\ ~last.ret
    /\ last.tok \in tried
    /\ ~HasState(stateStore, last.tok)

\* the requests suspended at an external call
InFlight(r) == req[r].pc \notin {"idle", "done"}

\* C23 -- of the callbacks that carry the same state token and a code and
\* are handled while one another's external calls are suspended, at most one
\* passes state validation and starts a code exchange; a callback arriving
\* while a request with the same state is in flight ends in Failed with no
\* external call
C23_SameStateOnce ==
    [][/\ \A r1, r2 \in Reqs :
            (r1 # r2 /\ req'[r1].pc \notin {"idle", "done"}
                     /\ req'[r2].pc \notin {"idle", "done"}) =>
                req'[r1].query.state # req'[r2].query.state
       /\ (/\ last'.op = "callback"
           /\ last'.cb[1].query.code # NULL
           /\ \E r \in Reqs :
                InFlight(r) /\ req[r].query.state = last'.cb[1].query.state) =>
            /\ last'.cb[1].outcome = "Failed"
            /\ last'.cb[1].calls = <<>>
            /\ req' = req]_vars

\* a callback with a code has just failed the state validation while the
\* request that consumed the same state is suspended at an external call
C23_Witness ==
    /\ last.op = "callback"
    /\ Arrival.outcome = "Failed"
    /\ Arrival.msg = MsgSecurity
    /\ Arrival.query.code # NULL
    /\ Arrival.calls = <<>>
    /\ \E r \in Reqs : InFlight(r) /\ req[r].query.state = Arrival.query.state

\* C25 -- a state that passed validation stays consumed when the flow then
\* fails: the catch block leaves the registry as it is, without the state,
\* and a later callback with that state and a code ends in the CSRF failure
\* and not in a code exchange
C25_ConsumedOnFailure ==
    [][/\ (last'.op = "failed") =>
            /\ stateStore' = stateStore
            /\ ~HasState(stateStore', last'.tok)
            /\ last'.tok \in tried'
       /\ (/\ last'.op = "callback"
           /\ last'.cb[1].query.code # NULL
           /\ last'.cb[1].query.error = NULL
           /\ last'.cb[1].query.state \in tried) =>
            /\ last'.cb[1].outcome = "Failed"
            /\ last'.cb[1].msg = MsgSecurity
            /\ last'.cb[1].calls = <<>>]_vars

\* the only flow that passed validation failed at an external call, no
\* record was saved, and a callback with its state has just been refused
C25_Witness ==
    /\ last.op = "callback"
    /\ Arrival.outcome = "Failed"
    /\ Arrival.msg = MsgSecurity
    /\ Arrival.query.code # NULL
    /\ tried = {Arrival.query.state}
    /\ req[1].pc = "done"
    /\ req[2].pc = "idle"
    /\ DOMAIN tokenStore = {}

\* ------------------------------------------- properties: external answers
\* C24 -- an answer of the code exchange or of the upgrade that lacks
\* access_token, or an identity answer that lacks id, ends the flow in
\* Failed: no callback completes after such an answer, and the store never
\* holds a record under an absent user identifier or with an absent
\* accessToken
C24_MalformedIsFailure ==
    /\ \A u \in DOMAIN tokenStore :
            u # NULL /\ tokenStore[u].accessToken # NULL
    /\ (last.op = "complete") =>
            /\ Arrival.short # NULL
            /\ Arrival.long.access_token # NULL
            /\ Arrival.userId # NULL

\* the pages that carry a linked business account
Linked(page) == page.instagram_business_account # <<>>

\* the page the discovery settled on: linked, with no linked page before it
IsFirstLinked(pages, i) ==
    /\ i \in 1 .. Len(pages)
    /\ Linked(pages[i])
    /\ \A j \in 1 .. (i - 1) : ~Linked(pages[j])

\* how often a call was issued
Issued(calls, name) == Cardinality({ k \in 1 .. Len(calls) : calls[k] = name })

\* C28 -- the callback settles on the first page of the list that carries a
\* linked business account: the detail lookup is issued once, for that
\* page's account id and with that page's access token, the data saved are
\* that page's account id and access token whatever the pages after it
\* hold, and with no linked page no detail lookup is issued and no account
\* is saved
C28_FirstMatchWins ==
    /\ \A r \in Reqs :
         (req[r].pc = "detail") =>
            /\ Issued(req[r].calls, "getInstagramBusinessAccount") = 1
            /\ \E i \in 1 .. Len(req[r].pages) :
                 /\ IsFirstLinked(req[r].pages, i)
                 /\ req[r].acct =
                      req[r].pages[i].instagram_business_account[1]
                 /\ req[r].pageToken = req[r].pages[i].access_token
    /\ (last.op = "complete") =>
         IF \E i \in 1 .. Len(last.pages) : Linked(last.pages[i])
         THEN /\ Issued(Arrival.calls, "getInstagramBusinessAccount") = 1
              /\ \E i \in 1 .. Len(last.pages) :
                   /\ IsFirstLinked(last.pages, i)
                   /\ last.data[1].instagramAccountId =
                        last.pages[i].instagram_business_account[1]
                   /\ last.data[1].pageAccessToken =
                        last.pages[i].access_token
         ELSE /\ Issued(Arrival.calls, "getInstagramBusinessAccount") = 0
              /\ last.data[1].instagramAccountId = NULL
              /\ last.data[1].pageAccessToken = NULL

\* a callback has just completed on a list whose first page is linked and
\* whose later pages hold another linked account: the first page's is saved
C28_Witness ==
    /\ last.op = "complete"
    /\ Len(last.pages) = MaxPages
    /\ Linked(last.pages[1])
    /\ \E j \in 2 .. Len(last.pages) :
            Linked(last.pages[j]) /\ last.pages[j] # last.pages[1]
    /\ last.data[1].instagramAccountId =
            last.pages[1].instagram_business_account[1]
    /\ last.data[1].pageAccessToken = last.pages[1].access_token
    /\ Arrival.calls = CallOrder

\* ------------------------------------------- properties: lazy expiry
\* C26 -- getAllTokens returns one entry for every stored record, expired
\* ones included, flagged isExpired exactly when the clock is past
\* expiresAt, and leaves the store as it is; the clock and the CSRF sweep
\* leave the store as it is; a record leaves the store only through getToken
\* on that record once it has expired, deleteToken of its user, or
\* clearAllTokens
C26_LazyExpiryOnly ==
    [][/\ (last'.op = "getAllTokens") =>
            /\ tokenStore' = tokenStore
            /\ { e.userId : e \in last'.all } = DOMAIN tokenStore
            /\ Cardinality(last'.all) = Cardinality(DOMAIN tokenStore)
            /\ \A e \in last'.all :
                 /\ e.record = tokenStore[e.userId]
                 /\ e.isExpired <=> (now > tokenStore[e.userId].expiresAt)
       /\ (last'.op \in {"tick", "cleanupExpiredStates", "generateState"}) =>
            tokenStore' = tokenStore
       /\ \A u \in DOMAIN tokenStore :
            (u \notin DOMAIN tokenStore') =>
                \/ /\ last'.op = "getToken"
                   /\ last'.user = u
                   /\ now > tokenStore[u].expiresAt
                \/ /\ last'.op = "deleteToken"
                   /\ last'.user = u
                \/ last'.op = "clearAllTokens"]_vars

\* getAllTokens has just listed an expired record next to a live one, and
\* both are still in the store
C26_Witness ==
    /\ last.op = "getAllTokens"
    /\ \E e1, e2 \in last.all :
         /\ e1.isExpired
         /\ ~e2.isExpired
         /\ {e1.userId, e2.userId} \subseteq DOMAIN tokenStore

\* ------------------------------------------- properties: one threshold
\* C27 -- at every time and for every entry of the registry, the sweep would
\* delete the entry exactly when validateState would reject it: an entry is
\* accepted and retained up to an age of exactly ten minutes and rejected
\* and deleted beyond, an entry issued at clock value 0 included
C27_SameThreshold ==
    \A s \in DOMAIN stateStore :
        (s \notin DOMAIN cleanupStore(stateStore, now))
            <=> ~validateStateResult(stateStore, s, now)

\* ------------------------------------------- properties: relays and listing
\* C29 -- /api/me and the relay routes issue no Graph API call for a userId
\* that has no record or whose record has expired when the request is
\* handled, and a call that is issued carries the token of the record then
\* stored for that userId: accessToken for /api/me, pageAccessToken for the
\* relay routes
C29_ExpiredIsAbsent ==
    [][(last'.op = "api" /\ last'.res[1].route \in {"me"} \cup RelayRoutes) =>
         LET u    == last'.user
             call == last'.res[1].call
         IN  /\ (\/ u \notin DOMAIN tokenStore
                 \/ now > tokenStore[u].expiresAt) => call = <<>>
             /\ (call # <<>>) =>
                  /\ u \in DOMAIN tokenStore
                  /\ tokenStore'[u] = tokenStore[u]
                  /\ call = IF last'.res[1].route = "me"
                            THEN <<tokenStore[u].accessToken>>
                            ELSE <<tokenStore[u].pageAccessToken>>]_vars

\* a relay route has just been asked for a user whose record had expired:
\* getToken removed it and no call was issued
C29_Witness ==
    /\ last.op = "api"
    /\ Res.route \in RelayRoutes
    /\ last.found
    /\ last.user \notin DOMAIN tokenStore
    /\ Res.call = <<>>
    /\ Res.status \in {401, 404}

\* the values a credential secret may take
Secrets == {"L", "P1", "X", NULL}

\* the store with the secrets of its records replaced
WithSecrets(store, f) ==
    [u \in DOMAIN store |->
        [store[u] EXCEPT !.accessToken = f[u][1], !.pageAccessToken = f[u][2]]]

\* C30 -- the response of /api/tokens is the same for every store that
\* differs from the current one only in the accessToken and pageAccessToken
\* of its records, and its entries have the fields userId, instagramUserId,
\* permissions, expiresAt, createdAt and isExpired and no other
C30_NoSecretsListed ==
    (last.op = "api" /\ Res.route = "tokens") =>
        /\ \A f \in [DOMAIN tokenStore -> Secrets \X Secrets] :
             last.res = TokensResponse(nodeEnv, WithSecrets(tokenStore, f), now)
        /\ \A e \in Res.body :
             DOMAIN e = {"userId", "instagramUserId", "permissions",
                         "expiresAt", "createdAt", "isExpired"}

\* /api/tokens has just listed a record that holds both secrets
C30_Witness ==
    /\ last.op = "api"
    /\ Res.route = "tokens"
    /\ Res.status = 200
    /\ \E e \in Res.body :
         /\ e.userId \in DOMAIN tokenStore
         /\ tokenStore[e.userId].accessToken # NULL
         /\ tokenStore[e.userId].pageAccessToken # NULL

====
